---- MODULE Spec2Model ----
(***************************************************************************)
(* Process supervision and graceful lifecycle of node-logging:             *)
(*   - the primary process of src/cluster.js (fork, crash respawn with a   *)
(*     restart-rate limit, graceful shutdown, SIGUSR2 rolling restart);    *)
(*   - the worker process of src/server.js (connection tracking and the    *)
(*     drain sequence of gracefulShutdown) with the readiness flag of      *)
(*     src/routes/healthRoutes.js.                                         *)
(* Time is in milliseconds.  Timers fire at their deadline: the clock does *)
(* not move past a pending deadline, and two timers due at the same        *)
(* instant fire in either order.                                           *)
(***************************************************************************)
EXTENDS Integers, Sequences, FiniteSets, TLC

VARIABLES
    now,            \* primary: Date.now()
    numWorkers,     \* cluster.js:14
    clusterState,   \* cluster.js:17-21  [isShuttingDown, workerRestarts]
    workers,        \* cluster.workers: id -> worker record (live workers)
    ids,            \* last worker id handed out by cluster.fork()
    slotOf,         \* id -> id of the startup worker whose place it takes
    rotations,      \* SIGUSR2 rolling restarts started so far
    shutdownTimeout,\* primary: SHUTDOWN_TIMEOUT_MS as parsed (cluster.js:128)
    checkInterval,  \* primary: next firing of the 500 ms poller, or NoTimer
    forceExit,      \* primary: deadline of the force-exit timer, or NoTimer
    primaryExit,    \* primary: process exit code, or Running
    crashes,        \* number of crash exits so far
    signals,        \* number of SIGTERM/SIGINT signals delivered to the primary
    \* one worker process (server.js, routes/healthRoutes.js)
    serverState,    \* server.js:19-22  [isShuttingDown, connections]
    healthState,    \* healthRoutes.js:13-22  [isReady, isHealthy]
    server,         \* the http server: "starting", "listening" or "closed"
    accepted,       \* number of connections accepted so far
    ended,          \* tracked connections half-closed by connection.end()
    destroyed,      \* tracked connections destroyed, 'close' not yet delivered
    env,            \* [DRAIN_DELAY_MS, SHUTDOWN_TIMEOUT_MS], 0 when unset
    phase,          \* position of gracefulShutdown: RUNNING .. TERMINATED
    shutdownAt,     \* instant of the shutdown trigger, or NoTimer
    drainTimer,     \* deadline of the drain delay, or NoTimer
    forceShutdownTimer, \* deadline of the force-shutdown timer, or NoTimer
    destroyTimer,   \* deadline of the per-connection destroy timers, or NoTimer
    toDestroy,      \* connections the destroy timers were set for
    checkConnections,   \* next firing of the 100 ms poller, or NoTimer
    workerExit,     \* worker process exit code, or Running
    exitBy,         \* the process.exit call that ended the worker, or "none"
    requests,       \* number of shutdown requests (signal, message) delivered
    thenExit,       \* uncaughtException: process.exit(1) awaits gracefulShutdown
    closed,         \* accepted connections whose 'close' event was delivered
    lastTrigger,    \* how the last shutdown request arrived: signal or message
    checks,         \* healthRoutes.js:17-21  healthState.checks
    probes,         \* health probes handled so far, each with what it read
    immediates,     \* probes whose runHealthChecks awaits setImmediate (FIFO)
    \* the heartbeat watchdog (cluster.js:209-250)
    lastHeartbeat,  \* id -> instant of the last heartbeat received (or the fork)
    heartbeatInterval, \* id -> next firing of the primary's 30 s check
    beatTimer,      \* id -> next firing of the worker's 10 s heartbeat interval
    inFlight,       \* ids whose heartbeat message is on its way to the primary
    hung,           \* ids whose event loop is stuck in a loop that never ends
    killed          \* id -> instant of the first worker.kill()

pvars == <<numWorkers, clusterState, workers, ids, slotOf, rotations,
           shutdownTimeout, checkInterval, forceExit, primaryExit, crashes, signals>>

wvars == <<serverState, healthState, server, accepted, ended, destroyed, env, phase,
           shutdownAt, drainTimer, forceShutdownTimer, destroyTimer, toDestroy,
           checkConnections, workerExit, exitBy, requests, thenExit, closed, lastTrigger,
           checks, probes, immediates>>

\* The health-check part of a worker (routes/healthRoutes.js).
kvars == <<checks, probes, immediates>>

hvars == <<lastHeartbeat, heartbeatInterval, beatTimer, inFlight, hung, killed>>

vars == <<now, pvars, wvars, hvars>>

---------------------------------------------------------------------------
(* Bounds of the model *)

\* CLUSTER_WORKERS ranges over 1..MaxWorkers
MaxWorkers == 2
\* worker ids handed out, startup included
MaxForks == 8
\* crash exits in Spec and SpecRoll
MaxCrashes == 1
\* crash exits in SpecStorm
StormCrashes == 6
\* SIGUSR2 signals
MaxRotations == 1
\* free clock steps of StepMs in Spec and SpecStorm
MaxSteps == 1
\* SIGTERM/SIGINT signals delivered to the primary
MaxSignals == 2

\* connections accepted by the worker
MaxConns == 2
\* free clock steps of StepMs in SpecWorker
WorkerSteps == 1
\* shutdown requests delivered to the worker
MaxRequests == 2
\* health probes handled by one worker
MaxProbes == 3
\* restart instants of a stored history: 0 .. MaxHistory steps of StepMs
MaxHistory == 6
\* instants of StepMs the clock covers in SpecBeat (three more in SpecBeatLong)
MaxBeatSteps == 10
\* workers that are behind with their heartbeat at the same time
MaxSilent == 1

(* Program constants *)

maxRestartsPerMinute == 5
RestartWindowMs == 60000
DefaultShutdownTimeoutMs == 30000
CheckIntervalMs == 500
RestartNextDelayMs == 1000
DefaultDrainDelayMs == 5000
DefaultForceShutdownMs == 30000
DestroyDelayMs == 5000
CheckConnectionsMs == 100
HeartbeatIntervalMs == 10000
WatchdogIntervalMs == 30000
HeartbeatTimeoutMs == 60000
MEMORY_THRESHOLD_PERCENT == 90
EVENT_LOOP_LAG_THRESHOLD_MS == 500

(* Model values *)

StepMs == 10 * 1000
NoTimer == -1
Running == -1
\* SHUTDOWN_TIMEOUT_MS of the primary: unset (0), or set
EnvShutdownTimeoutMs == {0, 1250}
\* DRAIN_DELAY_MS and SHUTDOWN_TIMEOUT_MS of the worker: unset (0), or set
EnvWorker == {[drain |-> 0, timeout |-> 0], [drain |-> 200, timeout |-> 1000],
              [drain |-> 200, timeout |-> 1050]}

---------------------------------------------------------------------------
(* Helpers *)

Min(a, b) == IF a <= b THEN a ELSE b

SetMin(S) == CHOOSE x \in S : \A y \in S : x <= y

RECURSIVE SortedSeq(_)
SortedSeq(S) == IF S = {} THEN <<>> ELSE <<SetMin(S)>> \o SortedSeq(S \ {SetMin(S)})

ParseTimeout(v) == IF v = 0 THEN DefaultShutdownTimeoutMs ELSE v

NewWorker(wd) ==
    [state |-> "online", exitedAfterDisconnect |-> FALSE, inbox |-> 0, watchdog |-> wd]

Put(ws, id, w) == [i \in DOMAIN ws \cup {id} |-> IF i = id THEN w ELSE ws[i]]

Drop(ws, id) == [i \in DOMAIN ws \ {id} |-> ws[i]]

\* forkWorker(): cluster.fork() plus the heartbeat watchdog.
forkWorker(ws, id) == Put(ws, id, NewWorker(TRUE))

\* A bare cluster.fork(), as the rolling restart calls it.
clusterFork(ws, id) == Put(ws, id, NewWorker(FALSE))

\* Mutant: the startup loop runs once too often (i <= numWorkers).
RECURSIVE StartupWorkersOneMore(_)
StartupWorkersOneMore(n) ==
    IF n = 0 THEN forkWorker(<< >>, 1)
    ELSE forkWorker(StartupWorkersOneMore(n - 1), n + 1)

\* The startup loop: forkWorker() numWorkers times.
RECURSIVE StartupWorkers(_)
StartupWorkers(n) == IF n = 0 THEN << >> ELSE forkWorker(StartupWorkers(n - 1), n)

Restarts(cs, id) ==
    IF id \in DOMAIN cs.workerRestarts THEN cs.workerRestarts[id] ELSE <<>>

InWindow(t, time) == t - time < RestartWindowMs

RecentRestarts(cs, id, t) == SelectSeq(Restarts(cs, id), LAMBDA time : InWindow(t, time))

\* Mutant: the limit is tested with > in place of >=.
UnderLimitInclusive(cs, id, t) == ~ (Len(RecentRestarts(cs, id, t)) > maxRestartsPerMinute)

UnderLimit(cs, id, t) == ~ (Len(RecentRestarts(cs, id, t)) >= maxRestartsPerMinute)

\* Mutant: the exit handler without its isShuttingDown test.
ShouldRespawnIgnoringShutdown(cs, id, t) == UnderLimit(cs, id, t)

\* Mutant: the isShuttingDown test is inverted.
ShouldRespawnOnlyInShutdown(cs, id, t) == cs.isShuttingDown /\ UnderLimit(cs, id, t)

\* The exit handler respawns unless shutting down or over the limit.
ShouldRespawn(cs, id, t) == ~cs.isShuttingDown /\ UnderLimit(cs, id, t)

PrimaryRunning == primaryExit = Running

Live == DOMAIN workers

\* A worker that serves: listening, not asked to disconnect or to shut down.
Ready(id) ==
    /\ id \in Live
    /\ workers[id].state = "listening"
    /\ ~workers[id].exitedAfterDisconnect
    /\ workers[id].inbox = 0

ReadyWorkers == {id \in Live : Ready(id)}

NotListening == {id \in Live : workers[id].state = "online"}

---------------------------------------------------------------------------
(* Rolling restart (SIGUSR2), cluster.js:149-182 *)

\* First position >= index of the snapshot whose worker is still in
\* cluster.workers; Len + 1 when there is none (restartNext's skip loop).
RECURSIVE SkipDead(_, _, _)
SkipDead(workerIds, index, live) ==
    IF index > Len(workerIds) THEN index
    ELSE IF workerIds[index] \in live THEN index
    ELSE SkipDead(workerIds, index + 1, live)

OldWorker(rot) == rot.workerIds[rot.index]

\* Does restartNext(index) fork a new worker?
RestartNextForks(workerIds, index, live) ==
    SkipDead(workerIds, index, live) <= Len(workerIds)

\* restartNext(index): the rotation after the call; newId is the id the
\* fork would hand out.
restartNext(rot, index, live, newId) ==
    LET i == SkipDead(rot.workerIds, index, live) IN
    IF i > Len(rot.workerIds)
    THEN [rot EXCEPT !.index = i, !.phase = "complete", !.newWorker = 0,
                     !.timerAt = NoTimer]
    ELSE [rot EXCEPT !.index = i, !.phase = "listening", !.newWorker = newId,
                     !.timerAt = NoTimer]

\* Mutant: the restart disconnects every worker of the snapshot at once
\* instead of one at a time behind its replacement.
RestartNextWorkersDisconnectAll(ws, workerIds, index, newId) ==
    IF SkipDead(workerIds, index, DOMAIN ws) <= Len(workerIds)
    THEN Put([i \in DOMAIN ws |->
                IF \E j \in DOMAIN workerIds : workerIds[j] = i
                THEN [ws[i] EXCEPT !.exitedAfterDisconnect = TRUE] ELSE ws[i]],
             newId, NewWorker(FALSE))
    ELSE ws

\* restartNext(index): cluster.workers after the call (the new worker is
\* forked first; the old one is left alone until the new one listens).
RestartNextWorkers(ws, workerIds, index, newId) ==
    IF RestartNextForks(workerIds, index, DOMAIN ws) THEN clusterFork(ws, newId) ELSE ws

\* newWorker.on('listening'): disconnect the old worker, then wait for its exit.
OnNewListening(rot, id) ==
    IF rot.phase = "listening" /\ rot.newWorker = id
    THEN [rot EXCEPT !.phase = "exit"]
    ELSE rot

\* worker.on('exit') of the rolling restart: restartNext(index + 1) in 1000 ms.
OnOldExit(rot, id, t) ==
    IF rot.phase = "exit" /\ OldWorker(rot) = id
    THEN [rot EXCEPT !.phase = "timer", !.timerAt = t + RestartNextDelayMs]
    ELSE rot

\* Mutant: the callback listens on cluster 'listening' instead of the new
\* worker's own event, so any worker's report disconnects the old worker.
DisconnectedByAnyListening(id) ==
    {rotations[k].workerIds[rotations[k].index] : k \in {j \in DOMAIN rotations :
        rotations[j].phase = "listening"}}

\* The old workers whose disconnect() the 'listening' of id requests.
DisconnectedBy(id) ==
    {OldWorker(rotations[k]) : k \in {j \in DOMAIN rotations :
        rotations[j].phase = "listening" /\ rotations[j].newWorker = id}}

---------------------------------------------------------------------------
(* Worker process: state *)

\* Mutant: DRAIN_DELAY_MS is not read.
DrainDelayDefaultOnly(e) == DefaultDrainDelayMs

\* parseInt(process.env.DRAIN_DELAY_MS, 10) || 5000
DrainDelay(e) == IF e.drain = 0 THEN DefaultDrainDelayMs ELSE e.drain

\* parseInt(process.env.SHUTDOWN_TIMEOUT_MS, 10) || 30000
ForceShutdownTimeout(e) == IF e.timeout = 0 THEN DefaultForceShutdownMs ELSE e.timeout

WorkerRunning == workerExit = Running

\* The names of the checks runHealthChecks evaluates.
CheckNames == {"memory", "eventLoop", "database"}

\* healthState.checks as the module creates it.
ChecksInit == [n \in CheckNames |-> [status |-> "unknown", lastCheck |-> NoTimer]]

\* The worker right after server.js has loaded: startServer() is under way.
WorkerInit ==
    /\ serverState = [isShuttingDown |-> FALSE, connections |-> {}]
    /\ healthState = [isReady |-> FALSE, isHealthy |-> TRUE]
    /\ server = "starting"
    /\ accepted = 0
    /\ ended = {}
    /\ destroyed = {}
    /\ env \in EnvWorker
    /\ phase = "RUNNING"
    /\ shutdownAt = NoTimer
    /\ drainTimer = NoTimer
    /\ forceShutdownTimer = NoTimer
    /\ destroyTimer = NoTimer
    /\ toDestroy = {}
    /\ checkConnections = NoTimer
    /\ workerExit = Running
    /\ exitBy = "none"
    /\ requests = 0
    /\ thenExit = FALSE
    /\ closed = {}
    /\ lastTrigger = "none"
    /\ checks = ChecksInit
    /\ probes = << >>
    /\ immediates = << >>

\* The worker variables while a specification looks at the primary alone.
WorkerIdle ==
    /\ serverState = [isShuttingDown |-> FALSE, connections |-> {}]
    /\ healthState = [isReady |-> FALSE, isHealthy |-> TRUE]
    /\ server = "starting"
    /\ accepted = 0
    /\ ended = {}
    /\ destroyed = {}
    /\ env = [drain |-> 0, timeout |-> 0]
    /\ phase = "RUNNING"
    /\ shutdownAt = NoTimer
    /\ drainTimer = NoTimer
    /\ forceShutdownTimer = NoTimer
    /\ destroyTimer = NoTimer
    /\ toDestroy = {}
    /\ checkConnections = NoTimer
    /\ workerExit = Running
    /\ exitBy = "none"
    /\ requests = 0
    /\ thenExit = FALSE
    /\ closed = {}
    /\ lastTrigger = "none"
    /\ checks = ChecksInit
    /\ probes = << >>
    /\ immediates = << >>

\* The watchdog variables while a specification does not follow heartbeats.
BeatIdle ==
    /\ lastHeartbeat = << >>
    /\ heartbeatInterval = << >>
    /\ beatTimer = << >>
    /\ inFlight = {}
    /\ hung = {}
    /\ killed = << >>

\* The primary variables while a specification looks at one worker alone.
PrimaryIdle ==
    /\ numWorkers = 1
    /\ clusterState = [isShuttingDown |-> FALSE, workerRestarts |-> << >>]
    /\ workers = StartupWorkers(1)
    /\ ids = 1
    /\ slotOf = [i \in 1..1 |-> i]
    /\ rotations = << >>
    /\ shutdownTimeout = DefaultShutdownTimeoutMs
    /\ checkInterval = NoTimer
    /\ forceExit = NoTimer
    /\ primaryExit = Running
    /\ crashes = 0
    /\ signals = 0

---------------------------------------------------------------------------
(* Primary process *)

PrimaryInit ==
    /\ numWorkers \in 1..MaxWorkers
    /\ clusterState = [isShuttingDown |-> FALSE, workerRestarts |-> << >>]
    /\ workers = StartupWorkers(numWorkers)
    /\ ids = numWorkers
    /\ slotOf = [i \in 1..numWorkers |-> i]
    /\ rotations = << >>
    /\ shutdownTimeout \in {ParseTimeout(e) : e \in EnvShutdownTimeoutMs}
    /\ checkInterval = NoTimer
    /\ forceExit = NoTimer
    /\ primaryExit = Running
    /\ crashes = 0
    /\ signals = 0

Init == now = 0 /\ PrimaryInit /\ WorkerIdle /\ BeatIdle

\* cluster.on('exit') together with the per-worker 'exit' listeners.
OnExit(id) ==
    LET respawn == ShouldRespawn(clusterState, id, now)
        newId == ids + 1
    IN  /\ respawn => ids < MaxForks
        /\ clusterState' =
             IF respawn
             THEN [clusterState EXCEPT !.workerRestarts =
                     Put(@, id, Append(RecentRestarts(clusterState, id, now), now))]
             ELSE clusterState
        /\ workers' = IF respawn THEN forkWorker(Drop(workers, id), newId)
                                 ELSE Drop(workers, id)
        /\ ids' = IF respawn THEN newId ELSE ids
        /\ slotOf' = IF respawn THEN Put(slotOf, newId, slotOf[id]) ELSE slotOf
        /\ rotations' = [k \in DOMAIN rotations |-> OnOldExit(rotations[k], id, now)]

\* A worker process dies on its own (crash, kill).
WorkerCrash(id) ==
    /\ PrimaryRunning
    /\ id \in Live
    /\ crashes' = crashes + 1
    /\ OnExit(id)
    /\ UNCHANGED <<wvars, hvars>>
    /\ UNCHANGED <<now, numWorkers, shutdownTimeout, checkInterval, forceExit, primaryExit, signals>>

\* A worker whose disconnect was requested exits.
ExitAfterDisconnect(id) ==
    /\ PrimaryRunning
    /\ id \in Live
    /\ workers[id].exitedAfterDisconnect
    /\ OnExit(id)
    /\ UNCHANGED <<wvars, hvars>>
    /\ UNCHANGED <<now, numWorkers, shutdownTimeout, checkInterval, forceExit, primaryExit,
                   crashes, signals>>

\* A worker that received the shutdown message exits at the end of its drain.
ExitAfterShutdown(id) ==
    /\ PrimaryRunning
    /\ id \in Live
    /\ workers[id].inbox > 0
    /\ OnExit(id)
    /\ UNCHANGED <<wvars, hvars>>
    /\ UNCHANGED <<now, numWorkers, shutdownTimeout, checkInterval, forceExit, primaryExit,
                   crashes, signals>>

\* A worker's server starts listening: cluster 'listening' event.
WorkerListening(id) ==
    /\ PrimaryRunning
    /\ id \in Live
    /\ workers[id].state = "online"
    /\ workers' = [i \in Live |->
          IF i = id THEN [workers[i] EXCEPT !.state = "listening",
                             !.exitedAfterDisconnect = @ \/ i \in DisconnectedBy(id)]
          ELSE IF i \in DisconnectedBy(id)
               THEN [workers[i] EXCEPT !.exitedAfterDisconnect = TRUE]
               ELSE workers[i]]
    /\ rotations' = [k \in DOMAIN rotations |-> OnNewListening(rotations[k], id)]
    /\ UNCHANGED <<wvars, hvars>>
    /\ UNCHANGED <<now, numWorkers, clusterState, ids, slotOf, shutdownTimeout,
                   checkInterval, forceExit, primaryExit, crashes, signals>>

\* process.on('SIGUSR2').  allReadyAtStart records whether every worker of
\* the snapshot was serving when the signal arrived.
RollingRestart ==
    /\ PrimaryRunning
    /\ LET workerIds == SortedSeq(Live)
           forks == RestartNextForks(workerIds, 1, Live)
           newId == ids + 1
           rot == [workerIds |-> workerIds, index |-> 1, phase |-> "complete",
                   newWorker |-> 0, timerAt |-> NoTimer,
                   allReadyAtStart |-> (ReadyWorkers = Live)]
       IN  /\ forks => ids < MaxForks
           /\ rotations' = Append(rotations, restartNext(rot, 1, Live, newId))
           /\ workers' = RestartNextWorkers(workers, workerIds, 1, newId)
           /\ ids' = IF forks THEN newId ELSE ids
           /\ slotOf' = IF forks THEN Put(slotOf, newId, slotOf[workerIds[1]]) ELSE slotOf
    /\ UNCHANGED <<wvars, hvars>>
    /\ UNCHANGED <<now, numWorkers, clusterState, shutdownTimeout, checkInterval, forceExit,
                   primaryExit, crashes, signals>>

\* setTimeout(() => restartNext(index + 1), 1000) fires.
RestartNextTimer(k) ==
    /\ PrimaryRunning
    /\ k \in DOMAIN rotations
    /\ rotations[k].phase = "timer"
    /\ rotations[k].timerAt = now
    /\ LET rot == rotations[k]
           forks == RestartNextForks(rot.workerIds, rot.index + 1, Live)
           next == restartNext(rot, rot.index + 1, Live, ids + 1)
       IN  /\ forks => ids < MaxForks
           /\ rotations' = [rotations EXCEPT ![k] = next]
           /\ workers' = RestartNextWorkers(workers, rot.workerIds, rot.index + 1, ids + 1)
           /\ ids' = IF forks THEN ids + 1 ELSE ids
           /\ slotOf' = IF forks THEN Put(slotOf, ids + 1, slotOf[OldWorker(next)])
                                 ELSE slotOf
    /\ UNCHANGED <<wvars, hvars>>
    /\ UNCHANGED <<now, numWorkers, clusterState, shutdownTimeout, checkInterval, forceExit,
                   primaryExit, crashes, signals>>

\* worker.send({ type: 'shutdown' }) to every worker of cluster.workers.
SendShutdown(ws) == [i \in DOMAIN ws |-> [ws[i] EXCEPT !.inbox = @ + 1]]

\* Mutant: gracefulShutdown without its early return when already shutting down.
TerminateResend ==
    /\ PrimaryRunning
    /\ clusterState' = [clusterState EXCEPT !.isShuttingDown = TRUE]
    /\ workers' = SendShutdown(workers)
    /\ checkInterval' = now + CheckIntervalMs
    /\ forceExit' = now + shutdownTimeout
    /\ signals' = signals + 1
    /\ UNCHANGED <<wvars, hvars>>
    /\ UNCHANGED <<now, numWorkers, ids, slotOf, rotations, shutdownTimeout, primaryExit,
                   crashes>>

\* Mutant: the isShuttingDown test guards only the round of messages; the
\* poller and the timeout are set up again by every signal.
TerminateRearm ==
    /\ PrimaryRunning
    /\ clusterState' = [clusterState EXCEPT !.isShuttingDown = TRUE]
    /\ workers' = IF clusterState.isShuttingDown THEN workers ELSE SendShutdown(workers)
    /\ checkInterval' = now + CheckIntervalMs
    /\ forceExit' = now + shutdownTimeout
    /\ signals' = signals + 1
    /\ UNCHANGED <<wvars, hvars>>
    /\ UNCHANGED <<now, numWorkers, ids, slotOf, rotations, shutdownTimeout, primaryExit,
                   crashes>>

\* gracefulShutdown(signal) of the primary, on SIGTERM or SIGINT.
Terminate ==
    /\ PrimaryRunning
    /\ IF clusterState.isShuttingDown
       THEN UNCHANGED <<clusterState, workers, checkInterval, forceExit>>
       ELSE /\ clusterState' = [clusterState EXCEPT !.isShuttingDown = TRUE]
            /\ workers' = SendShutdown(workers)
            /\ checkInterval' = now + CheckIntervalMs
            /\ forceExit' = now + shutdownTimeout
    /\ signals' = signals + 1
    /\ UNCHANGED <<wvars, hvars>>
    /\ UNCHANGED <<now, numWorkers, ids, slotOf, rotations, shutdownTimeout, primaryExit,
                   crashes>>

\* Mutant: the poller exits without looking at the worker count.
CheckWorkersNoCount ==
    /\ PrimaryRunning
    /\ checkInterval = now
    /\ primaryExit' = 0 /\ checkInterval' = NoTimer
    /\ UNCHANGED <<wvars, hvars>>
    /\ UNCHANGED <<now, numWorkers, clusterState, workers, ids, slotOf, rotations,
                   shutdownTimeout, forceExit, crashes, signals>>

\* The 500 ms poller of gracefulShutdown fires.
CheckWorkers ==
    /\ PrimaryRunning
    /\ checkInterval = now
    /\ IF Cardinality(Live) = 0
       THEN primaryExit' = 0 /\ checkInterval' = NoTimer
       ELSE primaryExit' = primaryExit /\ checkInterval' = now + CheckIntervalMs
    /\ UNCHANGED <<wvars, hvars>>
    /\ UNCHANGED <<now, numWorkers, clusterState, workers, ids, slotOf, rotations,
                   shutdownTimeout, forceExit, crashes, signals>>

\* The force-exit timer of gracefulShutdown fires.
ForceExit ==
    /\ PrimaryRunning
    /\ forceExit = now
    /\ primaryExit' = 1
    /\ UNCHANGED <<wvars, hvars>>
    /\ UNCHANGED <<now, numWorkers, clusterState, workers, ids, slotOf, rotations,
                   shutdownTimeout, checkInterval, forceExit, crashes, signals>>

Deadlines ==
    ({checkInterval, forceExit} \cup {rotations[k].timerAt : k \in DOMAIN rotations})
        \ {NoTimer}

\* Time passes, up to the next timer deadline.
Advance(maxSteps) ==
    /\ PrimaryRunning
    /\ \A d \in Deadlines : d > now
    /\ Deadlines = {} => now + StepMs <= maxSteps * StepMs
    /\ now' = IF Deadlines = {} THEN now + StepMs
              ELSE Min(now + StepMs, SetMin(Deadlines))
    /\ UNCHANGED <<wvars, hvars>>
    /\ UNCHANGED <<numWorkers, clusterState, workers, ids, slotOf, rotations,
                   shutdownTimeout, checkInterval, forceExit, primaryExit, crashes, signals>>

\* The primary with crash respawn and graceful shutdown.
Next ==
    \/ \E id \in Live : crashes < MaxCrashes /\ WorkerCrash(id)
    \/ \E id \in Live : ExitAfterShutdown(id)
    \/ \E id \in Live : WorkerListening(id)
    \/ signals < MaxSignals /\ Terminate
    \/ CheckWorkers
    \/ ForceExit
    \/ Advance(MaxSteps)

Spec == Init /\ [][Next]_vars

\* The primary under a crash storm: no signal arrives.
NextStorm ==
    \/ \E id \in Live : crashes < StormCrashes /\ WorkerCrash(id)
    \/ \E id \in Live : WorkerListening(id)
    \/ Advance(MaxSteps)

SpecStorm == Init /\ [][NextStorm]_vars

\* The primary recovering from crashes, a replacement's crash included: no
\* signal arrives, and a forked worker that stays alive gets to listen.
NextRecover ==
    \/ \E id \in Live : crashes < MaxCrashes + 1 /\ WorkerCrash(id)
    \/ \E id \in Live : WorkerListening(id)
    \/ Advance(MaxSteps)

SpecRecover ==
    /\ Init
    /\ [][NextRecover]_vars
    /\ \A id \in 1..MaxForks : WF_vars(WorkerListening(id))

\* The exit handler applied to any stored history: restart instants in
\* insertion order, every StepMs from 0 on, with the crash exit at the end of
\* the window that starts at 0 or one step later.
HistoryInstants == {k * StepMs : k \in 0..MaxHistory}
Histories == {SortedSeq(S) : S \in SUBSET HistoryInstants}
CrashInstants == {RestartWindowMs, RestartWindowMs + StepMs}

InitGovernor ==
    /\ now \in CrashInstants
    /\ numWorkers \in 1..MaxWorkers
    /\ clusterState \in {[isShuttingDown |-> FALSE, workerRestarts |-> Put(<< >>, 1, h)] :
                           h \in Histories}
    /\ workers = StartupWorkers(numWorkers)
    /\ ids = numWorkers
    /\ slotOf = [i \in 1..numWorkers |-> i]
    /\ rotations = << >>
    /\ shutdownTimeout = DefaultShutdownTimeoutMs
    /\ checkInterval = NoTimer
    /\ forceExit = NoTimer
    /\ primaryExit = Running
    /\ crashes = 0
    /\ signals = 0
    /\ WorkerIdle
    /\ BeatIdle

NextGovernor == \E id \in Live : crashes < MaxCrashes + 1 /\ WorkerCrash(id)

SpecGovernor == InitGovernor /\ [][NextGovernor]_vars

\* The primary with rolling restarts and crash respawn; the clock moves
\* from one restartNext timer to the next.
NextRoll ==
    \/ \E id \in Live : crashes < MaxCrashes /\ WorkerCrash(id)
    \/ \E id \in Live : ExitAfterDisconnect(id)
    \/ \E id \in Live : WorkerListening(id)
    \/ Len(rotations) < MaxRotations /\ RollingRestart
    \/ \E k \in DOMAIN rotations : RestartNextTimer(k)
    \/ Advance(0)

SpecRoll == Init /\ [][NextRoll]_vars

\* The primary when SIGUSR2 arrives again: one more rolling restart than
\* NextRoll allows, and no crash.
NextRollAgain ==
    \/ \E id \in Live : ExitAfterDisconnect(id)
    \/ \E id \in Live : WorkerListening(id)
    \/ Len(rotations) < MaxRotations + 1 /\ RollingRestart
    \/ \E k \in DOMAIN rotations : RestartNextTimer(k)
    \/ Advance(0)

SpecRollAgain == Init /\ [][NextRollAgain]_vars

---------------------------------------------------------------------------
(* Heartbeat watchdog, cluster.js:209-250 *)

\* forkWorker() at instant t: lastHeartbeat = Date.now() and the 30 s check.
WatchFork(f, id, t) == Put(f, id, t)

\* The watchdog state right after the startup loop; every worker starts its
\* heartbeat interval as it starts.
BeatInit ==
    /\ lastHeartbeat = [id \in 1..numWorkers |-> 0]
    /\ heartbeatInterval = [id \in 1..numWorkers |-> WatchdogIntervalMs]
    /\ beatTimer = [id \in 1..numWorkers |-> HeartbeatIntervalMs]
    /\ inFlight = {}
    /\ hung = {}
    /\ killed = << >>

InitBeat == now = 0 /\ PrimaryInit /\ WorkerIdle /\ BeatInit

\* The workers that are behind with their heartbeat.
Silent == {id \in Live : id \in hung \/ now - lastHeartbeat[id] > HeartbeatIntervalMs}

\* The worker's heartbeat interval fires: process.send({ type: 'heartbeat' }).
SendHeartbeat(id) ==
    /\ PrimaryRunning
    /\ id \in Live \ hung
    /\ beatTimer[id] = now
    /\ inFlight' = inFlight \cup {id}
    /\ beatTimer' = [beatTimer EXCEPT ![id] = now + HeartbeatIntervalMs]
    /\ UNCHANGED <<now, pvars, wvars, lastHeartbeat, heartbeatInterval, hung, killed>>

\* The worker's event loop is busy when the heartbeat is due (a blocking
\* request handler): this heartbeat is not sent.
MissHeartbeat(id) ==
    /\ PrimaryRunning
    /\ id \in Live \ hung
    /\ beatTimer[id] = now
    /\ Cardinality(Silent \cup {id}) <= MaxSilent
    /\ beatTimer' = [beatTimer EXCEPT ![id] = now + HeartbeatIntervalMs]
    /\ UNCHANGED <<now, pvars, wvars, lastHeartbeat, heartbeatInterval, inFlight, hung,
                   killed>>

\* The worker enters a loop that never returns to the event loop: no timer
\* and no signal handler of that worker runs again.
Hang(id) ==
    /\ PrimaryRunning
    /\ id \in Live \ hung
    /\ Cardinality(Silent \cup {id}) <= MaxSilent
    /\ hung' = hung \cup {id}
    /\ UNCHANGED <<now, pvars, wvars, lastHeartbeat, heartbeatInterval, beatTimer,
                   inFlight, killed>>

\* worker.on('message') of forkWorker: a heartbeat sets lastHeartbeat.
ReceiveHeartbeat(id) ==
    /\ PrimaryRunning
    /\ id \in inFlight
    /\ inFlight' = inFlight \ {id}
    /\ lastHeartbeat' = [lastHeartbeat EXCEPT ![id] = now]
    /\ UNCHANGED <<now, pvars, wvars, heartbeatInterval, beatTimer, hung, killed>>

\* Mutant: the check tolerates one more check period of silence.
WatchdogExpiredLate(t, last) == t - last > HeartbeatTimeoutMs + WatchdogIntervalMs

\* Mutant: the check uses >= instead of >.
WatchdogExpiredInclusive(t, last) == t - last >= HeartbeatTimeoutMs

\* timeSinceHeartbeat > 60000
WatchdogExpired(t, last) == t - last > HeartbeatTimeoutMs

\* The 30 s check of forkWorker fires: worker.kill() when the heartbeat is
\* overdue.  killed keeps the instant of the first kill.
WatchdogTick(id) ==
    /\ PrimaryRunning
    /\ id \in DOMAIN heartbeatInterval
    /\ heartbeatInterval[id] = now
    /\ heartbeatInterval' = [heartbeatInterval EXCEPT ![id] = now + WatchdogIntervalMs]
    /\ killed' = IF WatchdogExpired(now, lastHeartbeat[id]) /\ id \notin DOMAIN killed
                 THEN Put(killed, id, now) ELSE killed
    /\ UNCHANGED <<now, pvars, wvars, lastHeartbeat, beatTimer, inFlight, hung>>

\* worker.kill() sends SIGTERM; a worker whose event loop runs handles it
\* with gracefulShutdown (server.js:155) and exits between the drain delay
\* and the drain delay plus the force-shutdown timeout later.
KillExitFrom(t) == t + DefaultDrainDelayMs

KillExitBy(t) == t + DefaultDrainDelayMs + DefaultForceShutdownMs

\* The killed worker exits: cluster.on('exit'), and the 'exit' listener of
\* forkWorker clears its check; a respawn is a forkWorker() of its own.
KilledExit(id) ==
    /\ PrimaryRunning
    /\ id \in DOMAIN killed
    /\ id \notin hung
    /\ now >= KillExitFrom(killed[id])
    /\ OnExit(id)
    /\ LET respawn == ShouldRespawn(clusterState, id, now)
           newId == ids + 1
       IN  /\ lastHeartbeat' = IF respawn THEN WatchFork(Drop(lastHeartbeat, id), newId, now)
                                ELSE Drop(lastHeartbeat, id)
           /\ heartbeatInterval' =
                 IF respawn
                 THEN WatchFork(Drop(heartbeatInterval, id), newId, now + WatchdogIntervalMs)
                 ELSE Drop(heartbeatInterval, id)
           /\ beatTimer' = IF respawn
                           THEN Put(Drop(beatTimer, id), newId, now + HeartbeatIntervalMs)
                           ELSE Drop(beatTimer, id)
    /\ inFlight' = inFlight \ {id}
    /\ killed' = Drop(killed, id)
    /\ UNCHANGED <<now, numWorkers, shutdownTimeout, checkInterval, forceExit, primaryExit,
                   crashes, signals, wvars, hung>>

BeatDeadlines ==
    {heartbeatInterval[id] : id \in DOMAIN heartbeatInterval}
        \cup {beatTimer[id] : id \in DOMAIN beatTimer \ hung}
        \cup {KillExitBy(killed[id]) : id \in DOMAIN killed \ hung}

\* Time passes to the next deadline; a heartbeat on its way arrives first.
BeatAdvance(maxSteps) ==
    /\ PrimaryRunning
    /\ inFlight = {}
    /\ BeatDeadlines # {}
    /\ \A d \in BeatDeadlines : d > now
    /\ SetMin(BeatDeadlines) <= maxSteps * StepMs
    /\ now' = SetMin(BeatDeadlines)
    /\ UNCHANGED <<pvars, wvars, hvars>>

\* The primary with its workers' heartbeats: no signal arrives.
NextBeat ==
    \/ \E id \in Live : SendHeartbeat(id)
    \/ \E id \in Live : MissHeartbeat(id)
    \/ \E id \in Live : Hang(id)
    \/ \E id \in Live : ReceiveHeartbeat(id)
    \/ \E id \in Live : WatchdogTick(id)
    \/ \E id \in Live : KilledExit(id)
    \/ BeatAdvance(MaxBeatSteps)

SpecBeat == InitBeat /\ [][NextBeat]_vars

\* The same over a longer time: past the watchdog timeout, one more check
\* period and a worker's whole shutdown budget.
NextBeatLong ==
    \/ \E id \in Live : SendHeartbeat(id)
    \/ \E id \in Live : MissHeartbeat(id)
    \/ \E id \in Live : Hang(id)
    \/ \E id \in Live : ReceiveHeartbeat(id)
    \/ \E id \in Live : WatchdogTick(id)
    \/ \E id \in Live : KilledExit(id)
    \/ BeatAdvance(MaxBeatSteps + 3)

SpecBeatLong == InitBeat /\ [][NextBeatLong]_vars

---------------------------------------------------------------------------
(* Worker process: server.js *)

InitWorker == now = 0 /\ PrimaryIdle /\ WorkerInit /\ BeatIdle

\* markReady()
markReady(hs) == [hs EXCEPT !.isReady = TRUE]

\* markNotReady()
markNotReady(hs) == [hs EXCEPT !.isReady = FALSE]

\* The callback of server.listen: the server listens, markReady().
Listening ==
    /\ WorkerRunning
    /\ server = "starting"
    /\ server' = "listening"
    /\ healthState' = markReady(healthState)
    /\ UNCHANGED <<now, pvars, hvars, serverState, accepted, ended, destroyed, env, phase,
                   shutdownAt, drainTimer, forceShutdownTimer, destroyTimer, toDestroy,
                   checkConnections, workerExit, exitBy, requests, thenExit>>
    /\ UNCHANGED <<closed, lastTrigger, kvars>>

\* Mutant: the EADDRINUSE handler logs the error and leaves the process
\* running, so that the listen can still succeed.
ListenErrorKeepsRunning ==
    /\ WorkerRunning
    /\ server = "starting"
    /\ exitBy # "EADDRINUSE"
    /\ exitBy' = "EADDRINUSE"
    /\ UNCHANGED <<now, pvars, hvars, serverState, healthState, server, accepted, ended,
                   destroyed, env, phase, shutdownAt, drainTimer, forceShutdownTimer,
                   destroyTimer, toDestroy, checkConnections, workerExit, requests,
                   thenExit>>
    /\ UNCHANGED <<closed, lastTrigger, kvars>>

\* server.on('error') with EADDRINUSE: process.exit(1).
ListenError ==
    /\ WorkerRunning
    /\ server = "starting"
    /\ workerExit' = 1
    /\ exitBy' = "EADDRINUSE"
    /\ phase' = "TERMINATED"
    /\ UNCHANGED <<now, pvars, hvars, serverState, healthState, server, accepted, ended,
                   destroyed, env, shutdownAt, drainTimer, forceShutdownTimer,
                   destroyTimer, toDestroy, checkConnections, requests, thenExit>>
    /\ UNCHANGED <<closed, lastTrigger, kvars>>

\* server.on('connection'): the connection is tracked.
Accept ==
    /\ WorkerRunning
    /\ server = "listening"
    /\ accepted < MaxConns
    /\ accepted' = accepted + 1
    /\ serverState' = [serverState EXCEPT !.connections = @ \cup {accepted + 1}]
    /\ UNCHANGED <<now, pvars, hvars, healthState, server, ended, destroyed, env, phase,
                   shutdownAt, drainTimer, forceShutdownTimer, destroyTimer, toDestroy,
                   checkConnections, workerExit, exitBy, requests, thenExit>>
    /\ UNCHANGED <<closed, lastTrigger, kvars>>

\* Mutant: the 'close' listener deletes only while the worker is not
\* shutting down.
ConnectionCloseWhileRunning(c) ==
    /\ WorkerRunning
    /\ c \in serverState.connections
    /\ c \notin closed
    /\ serverState' = IF serverState.isShuttingDown THEN serverState
                      ELSE [serverState EXCEPT !.connections = @ \ {c}]
    /\ ended' = ended \ {c}
    /\ destroyed' = destroyed \ {c}
    /\ UNCHANGED <<now, pvars, hvars, healthState, server, accepted, env, phase, shutdownAt,
                   drainTimer, forceShutdownTimer, destroyTimer, toDestroy,
                   checkConnections, workerExit, exitBy, requests, thenExit>>
    /\ closed' = closed \cup {c}
    /\ UNCHANGED <<lastTrigger, kvars>>

\* connection.on('close'): the connection leaves the tracked set.
ConnectionClose(c) ==
    /\ WorkerRunning
    /\ c \in serverState.connections
    /\ serverState' = [serverState EXCEPT !.connections = @ \ {c}]
    /\ ended' = ended \ {c}
    /\ destroyed' = destroyed \ {c}
    /\ UNCHANGED <<now, pvars, hvars, healthState, server, accepted, env, phase, shutdownAt,
                   drainTimer, forceShutdownTimer, destroyTimer, toDestroy,
                   checkConnections, workerExit, exitBy, requests, thenExit>>
    /\ closed' = closed \cup {c}
    /\ UNCHANGED <<lastTrigger, kvars>>

\* Mutant: the drain delay is not awaited.
DrainDeadlineNoDelay(t, e) == t

\* The deadline of the drain delay set at instant t.
DrainDeadline(t, e) == t + DrainDelay(e)

\* Mutant: gracefulShutdown without its isShuttingDown test; a repeated
\* request starts the drain delay again.
ShutdownTriggerAgain ==
    /\ WorkerRunning
    /\ serverState' = [serverState EXCEPT !.isShuttingDown = TRUE]
    /\ healthState' = markNotReady(healthState)
    /\ phase' = "DRAINING"
    /\ shutdownAt' = now
    /\ drainTimer' = DrainDeadline(now, env)
    /\ requests' = requests + 1
    /\ UNCHANGED <<now, pvars, hvars, server, accepted, ended, destroyed, env,
                   forceShutdownTimer, destroyTimer, toDestroy, checkConnections,
                   workerExit, exitBy, thenExit>>
    /\ lastTrigger' = "signal"
    /\ UNCHANGED <<closed, kvars>>

\* gracefulShutdown(signal) up to its await: SIGTERM, SIGINT or the
\* primary's shutdown message.
ShutdownTrigger ==
    /\ WorkerRunning
    /\ IF serverState.isShuttingDown
       THEN UNCHANGED <<serverState, healthState, phase, shutdownAt, drainTimer>>
       ELSE /\ serverState' = [serverState EXCEPT !.isShuttingDown = TRUE]
            /\ healthState' = markNotReady(healthState)
            /\ phase' = "DRAINING"
            /\ shutdownAt' = now
            /\ drainTimer' = DrainDeadline(now, env)
    /\ requests' = requests + 1
    /\ UNCHANGED <<now, pvars, hvars, server, accepted, ended, destroyed, env,
                   forceShutdownTimer, destroyTimer, toDestroy, checkConnections,
                   workerExit, exitBy, thenExit>>
    /\ lastTrigger' = "signal"
    /\ UNCHANGED <<closed, kvars>>

\* Messages the primary's IPC channel can deliver to a worker.
Messages == {[type |-> "shutdown"], [type |-> "other"]}

\* Mutant: the worker's message handler ends the process itself.
ShutdownMessageExits(m) ==
    /\ WorkerRunning
    /\ IF m.type = "shutdown"
       THEN /\ workerExit' = 0
            /\ exitBy' = "message"
            /\ phase' = "TERMINATED"
            /\ requests' = requests + 1
            /\ lastTrigger' = "message"
       ELSE UNCHANGED <<workerExit, exitBy, phase, requests, lastTrigger>>
    /\ UNCHANGED <<now, pvars, hvars, serverState, healthState, server, accepted, ended,
                   destroyed, env, shutdownAt, drainTimer, forceShutdownTimer,
                   destroyTimer, toDestroy, checkConnections, thenExit, closed, kvars>>

\* The worker's process.on('message') of cluster.js: a message of type
\* shutdown emits SIGTERM, whose listener is gracefulShutdown('SIGTERM').
ShutdownMessage(m) ==
    /\ WorkerRunning
    /\ IF m.type = "shutdown"
       THEN /\ IF serverState.isShuttingDown
               THEN UNCHANGED <<serverState, healthState, phase, shutdownAt, drainTimer>>
               ELSE /\ serverState' = [serverState EXCEPT !.isShuttingDown = TRUE]
                    /\ healthState' = markNotReady(healthState)
                    /\ phase' = "DRAINING"
                    /\ shutdownAt' = now
                    /\ drainTimer' = DrainDeadline(now, env)
            /\ requests' = requests + 1
            /\ lastTrigger' = "message"
       ELSE UNCHANGED <<serverState, healthState, phase, shutdownAt, drainTimer,
                        requests, lastTrigger>>
    /\ UNCHANGED <<now, pvars, hvars, server, accepted, ended, destroyed, env,
                   forceShutdownTimer, destroyTimer, toDestroy, checkConnections,
                   workerExit, exitBy, thenExit, closed, kvars>>

\* process.on('uncaughtException'): gracefulShutdown('uncaughtException'),
\* then process.exit(1) once it has returned; at once when a shutdown is
\* already in progress.
UncaughtException ==
    /\ WorkerRunning
    /\ IF serverState.isShuttingDown
       THEN /\ workerExit' = 1
            /\ exitBy' = "uncaughtException"
            /\ phase' = "TERMINATED"
            /\ UNCHANGED <<serverState, healthState, shutdownAt, drainTimer, thenExit>>
       ELSE /\ serverState' = [serverState EXCEPT !.isShuttingDown = TRUE]
            /\ healthState' = markNotReady(healthState)
            /\ phase' = "DRAINING"
            /\ shutdownAt' = now
            /\ drainTimer' = DrainDeadline(now, env)
            /\ thenExit' = TRUE
            /\ UNCHANGED <<workerExit, exitBy>>
    /\ UNCHANGED <<now, pvars, hvars, server, accepted, ended, destroyed, env,
                   forceShutdownTimer, destroyTimer, toDestroy, checkConnections, requests>>
    /\ UNCHANGED <<closed, lastTrigger, kvars>>

\* Mutant: the force-shutdown timer does not count from the end of the drain
\* delay but a drain delay later.
DrainElapsedLateForce ==
    /\ WorkerRunning
    /\ phase = "DRAINING"
    /\ drainTimer = now
    /\ phase' = IF thenExit THEN "TERMINATED" ELSE "CLOSING"
    /\ workerExit' = IF thenExit THEN 1 ELSE workerExit
    /\ exitBy' = IF thenExit THEN "uncaughtException" ELSE exitBy
    /\ drainTimer' = NoTimer
    /\ server' = IF server = "listening" THEN "closed" ELSE server
    /\ forceShutdownTimer' = now + DrainDelay(env) + ForceShutdownTimeout(env)
    /\ ended' = serverState.connections
    /\ toDestroy' = serverState.connections
    /\ destroyTimer' = IF serverState.connections = {} THEN NoTimer
                       ELSE now + DestroyDelayMs
    /\ checkConnections' = now + CheckConnectionsMs
    /\ UNCHANGED <<now, pvars, hvars, serverState, healthState, accepted, destroyed, env,
                   shutdownAt, requests, thenExit>>
    /\ UNCHANGED <<closed, lastTrigger, kvars>>

\* Mutant: the uncaughtException handler does not chain process.exit(1) to
\* the shutdown it started; the drain goes on like one started by a signal.
DrainElapsedNoExit ==
    /\ WorkerRunning
    /\ phase = "DRAINING"
    /\ drainTimer = now
    /\ phase' = "CLOSING"
    /\ workerExit' = workerExit
    /\ exitBy' = exitBy
    /\ drainTimer' = NoTimer
    /\ server' = IF server = "listening" THEN "closed" ELSE server
    /\ forceShutdownTimer' = now + ForceShutdownTimeout(env)
    /\ ended' = serverState.connections
    /\ toDestroy' = serverState.connections
    /\ destroyTimer' = IF serverState.connections = {} THEN NoTimer
                       ELSE now + DestroyDelayMs
    /\ checkConnections' = now + CheckConnectionsMs
    /\ UNCHANGED <<now, pvars, hvars, serverState, healthState, accepted, destroyed, env,
                   shutdownAt, requests, thenExit>>
    /\ UNCHANGED <<closed, lastTrigger, kvars>>

\* gracefulShutdown after its await: server.close(), the force-shutdown
\* timer, connection.end() with a destroy timer for every tracked
\* connection, and the 100 ms poller; then the process.exit(1) of an
\* uncaughtException handler waiting for it.
DrainElapsed ==
    /\ WorkerRunning
    /\ phase = "DRAINING"
    /\ drainTimer = now
    /\ phase' = IF thenExit THEN "TERMINATED" ELSE "CLOSING"
    /\ workerExit' = IF thenExit THEN 1 ELSE workerExit
    /\ exitBy' = IF thenExit THEN "uncaughtException" ELSE exitBy
    /\ drainTimer' = NoTimer
    /\ server' = IF server = "listening" THEN "closed" ELSE server
    /\ forceShutdownTimer' = now + ForceShutdownTimeout(env)
    /\ ended' = serverState.connections
    /\ toDestroy' = serverState.connections
    /\ destroyTimer' = IF serverState.connections = {} THEN NoTimer
                       ELSE now + DestroyDelayMs
    /\ checkConnections' = now + CheckConnectionsMs
    /\ UNCHANGED <<now, pvars, hvars, serverState, healthState, accepted, destroyed, env,
                   shutdownAt, requests, thenExit>>
    /\ UNCHANGED <<closed, lastTrigger, kvars>>

\* The destroy timers fire: connection.destroy() unless already destroyed.
DestroyTimers ==
    /\ WorkerRunning
    /\ destroyTimer = now
    /\ destroyTimer' = NoTimer
    /\ destroyed' = destroyed \cup (toDestroy \cap serverState.connections)
    /\ UNCHANGED <<now, pvars, hvars, serverState, healthState, server, accepted, ended, env,
                   phase, shutdownAt, drainTimer, forceShutdownTimer, toDestroy,
                   checkConnections, workerExit, exitBy, requests, thenExit>>
    /\ UNCHANGED <<closed, lastTrigger, kvars>>

\* The 100 ms poller fires: process.exit(0) once no connection is tracked.
CheckConnections ==
    /\ WorkerRunning
    /\ checkConnections = now
    /\ IF Cardinality(serverState.connections) = 0
       THEN /\ workerExit' = 0
            /\ exitBy' = "drained"
            /\ phase' = "TERMINATED"
            /\ checkConnections' = NoTimer
       ELSE /\ checkConnections' = now + CheckConnectionsMs
            /\ UNCHANGED <<workerExit, exitBy, phase>>
    /\ UNCHANGED <<now, pvars, hvars, serverState, healthState, server, accepted, ended,
                   destroyed, env, shutdownAt, drainTimer, forceShutdownTimer,
                   destroyTimer, toDestroy, requests, thenExit>>
    /\ UNCHANGED <<closed, lastTrigger, kvars>>

\* Mutant: the force-shutdown timer exits with the success code.
ForceShutdownExitsZero ==
    /\ WorkerRunning
    /\ forceShutdownTimer = now
    /\ workerExit' = 0
    /\ exitBy' = "forced"
    /\ phase' = "TERMINATED"
    /\ UNCHANGED <<now, pvars, hvars, serverState, healthState, server, accepted, ended,
                   destroyed, env, shutdownAt, drainTimer, forceShutdownTimer,
                   destroyTimer, toDestroy, checkConnections, requests, thenExit>>
    /\ UNCHANGED <<closed, lastTrigger, kvars>>

\* The force-shutdown timer fires: process.exit(1).
ForceShutdown ==
    /\ WorkerRunning
    /\ forceShutdownTimer = now
    /\ workerExit' = 1
    /\ exitBy' = "forced"
    /\ phase' = "TERMINATED"
    /\ UNCHANGED <<now, pvars, hvars, serverState, healthState, server, accepted, ended,
                   destroyed, env, shutdownAt, drainTimer, forceShutdownTimer,
                   destroyTimer, toDestroy, checkConnections, requests, thenExit>>
    /\ UNCHANGED <<closed, lastTrigger, kvars>>

WorkerDeadlines ==
    {drainTimer, forceShutdownTimer, destroyTimer, checkConnections} \ {NoTimer}

\* Time passes in the worker, up to the next timer deadline; the 'close' of
\* a destroyed connection is delivered before the clock moves.
WorkerAdvance ==
    /\ WorkerRunning
    /\ destroyed = {}
    /\ \A d \in WorkerDeadlines : d > now
    /\ WorkerDeadlines = {} => now + StepMs <= WorkerSteps * StepMs
    /\ now' = IF WorkerDeadlines = {} THEN now + StepMs
              ELSE Min(now + StepMs, SetMin(WorkerDeadlines))
    /\ UNCHANGED <<pvars, wvars, hvars>>

NextWorker ==
    \/ Listening
    \/ ListenError
    \/ Accept
    \/ \E c \in serverState.connections : ConnectionClose(c)
    \/ requests < MaxRequests /\ ShutdownTrigger
    \/ \E m \in Messages : requests < MaxRequests /\ ShutdownMessage(m)
    \/ UncaughtException
    \/ DrainElapsed
    \/ DestroyTimers
    \/ CheckConnections
    \/ ForceShutdown
    \/ WorkerAdvance

SpecWorker == InitWorker /\ [][NextWorker]_vars

\* Startup of the cluster: the primary with its numWorkers forks, and one of
\* the workers seen from inside, up to the moment a shutdown is asked for.
InitStartup == now = 0 /\ PrimaryInit /\ WorkerInit /\ BeatIdle

NextStartup ==
    \/ \E id \in Live : WorkerListening(id)
    \/ Listening
    \/ ListenError
    \/ Accept
    \/ \E c \in serverState.connections : ConnectionClose(c)

SpecStartup == InitStartup /\ [][NextStartup]_vars

---------------------------------------------------------------------------
(* Worker process: health checks and probes (routes/healthRoutes.js) *)

\* heapUsed / heapTotal * 100 as process.memoryUsage() can report it
HeapUsedPercents == {50, 90}
\* the lag, in ms, that the setImmediate round trip can measure
EventLoopLags == {0, 500}
Statuses == {"unknown", "healthy", "unhealthy"}
\* the details argument of updateHealthCheck: none, or with a status of its own
Details == {<< >>} \cup {[status |-> s] : s \in Statuses}
Routes == {"ready", "health"}

HealthStatus(healthy) == IF healthy THEN "healthy" ELSE "unhealthy"

\* updateHealthCheck: healthState.checks[checkName] = {status, lastCheck,
\* ...details}; a status among the details replaces the argument.
updateHealthCheck(ch, checkName, status, details, t) ==
    Put(ch, checkName,
        [status |-> IF "status" \in DOMAIN details THEN details.status ELSE status,
         lastCheck |-> t])

\* Object.values(checks).every((c) => c.status === 'healthy')
AllHealthy(cs) == \A n \in DOMAIN cs : cs[n].status = "healthy"

\* Mutant: the probe answers 200 whatever isHealthy is.
StatusCodeAlwaysOk(isHealthy) == 200

\* res.status(isHealthy ? 200 : 503)
StatusCode(isHealthy) == IF isHealthy THEN 200 ELSE 503

\* A probe arrives.  GET /health/ready answers 503 at once when isReady is
\* false; otherwise, and for GET /health, runHealthChecks() runs up to its
\* await: the memory check is taken and stored.
ProbeStart(route, heapUsedPercent) ==
    /\ WorkerRunning
    /\ server # "starting"
    /\ Len(probes) < MaxProbes
    /\ IF route = "ready" /\ ~healthState.isReady
       THEN /\ probes' = Append(probes, [route |-> route, sawReady |-> FALSE,
                                         stage |-> "done", local |-> << >>,
                                         code |-> 503])
            /\ UNCHANGED <<checks, immediates>>
       ELSE LET memory == [status |-> HealthStatus(heapUsedPercent < MEMORY_THRESHOLD_PERCENT)]
            IN  /\ checks' = updateHealthCheck(checks, "memory", memory.status, memory, now)
                /\ probes' = Append(probes, [route |-> route,
                                             sawReady |-> healthState.isReady,
                                             stage |-> "await",
                                             local |-> Put(<< >>, "memory", memory),
                                             code |-> 0])
                /\ immediates' = Append(immediates, Len(probes) + 1)
    /\ UNCHANGED <<now, pvars, hvars, serverState, healthState, server, accepted, ended,
                   destroyed, env, phase, shutdownAt, drainTimer, forceShutdownTimer,
                   destroyTimer, toDestroy, checkConnections, workerExit, exitBy,
                   requests, thenExit, closed, lastTrigger>>

\* The oldest pending setImmediate fires: runHealthChecks() takes and stores
\* the event-loop and database checks, sets isHealthy from the checks of its
\* own cycle and returns; the route answers by healthState.isHealthy.
ProbeResume(eventLoopLag) ==
    /\ WorkerRunning
    /\ immediates # << >>
    /\ LET p == Head(immediates)
           eventLoop == [status |-> HealthStatus(eventLoopLag < EVENT_LOOP_LAG_THRESHOLD_MS)]
           database == [status |-> "healthy"]
           local == Put(Put(probes[p].local, "eventLoop", eventLoop), "database", database)
           allHealthy == AllHealthy(local)
       IN  /\ checks' = updateHealthCheck(
                            updateHealthCheck(checks, "eventLoop", eventLoop.status,
                                              eventLoop, now),
                            "database", database.status, database, now)
           /\ healthState' = [healthState EXCEPT !.isHealthy = allHealthy]
           /\ probes' = [probes EXCEPT ![p] =
                           [@ EXCEPT !.stage = "done", !.local = local,
                                     !.code = StatusCode(healthState'.isHealthy)]]
           /\ immediates' = Tail(immediates)
    /\ UNCHANGED <<now, pvars, hvars, serverState, server, accepted, ended,
                   destroyed, env, phase, shutdownAt, drainTimer, forceShutdownTimer,
                   destroyTimer, toDestroy, checkConnections, workerExit, exitBy,
                   requests, thenExit, closed, lastTrigger>>

\* One worker answering health probes while it starts and is asked to
\* shut down.
NextHealth ==
    \/ Listening
    \/ requests < MaxRequests /\ ShutdownTrigger
    \/ \E route \in Routes, heapUsedPercent \in HeapUsedPercents :
          ProbeStart(route, heapUsedPercent)
    \/ \E eventLoopLag \in EventLoopLags : ProbeResume(eventLoopLag)

SpecHealth == InitWorker /\ [][NextHealth]_vars

\* Names a caller of the exported updateHealthCheck can pass.
CallNames == CheckNames \cup {"custom"}

\* Mutant: the upsert also recomputes the aggregate.
UpdateCheckRecomputes(checkName, status, details) ==
    /\ WorkerRunning
    /\ checks' = updateHealthCheck(checks, checkName, status, details, now)
    /\ healthState' = [healthState EXCEPT !.isHealthy = AllHealthy(checks')]
    /\ UNCHANGED <<now, pvars, hvars, serverState, server, accepted, ended,
                   destroyed, env, phase, shutdownAt, drainTimer, forceShutdownTimer,
                   destroyTimer, toDestroy, checkConnections, workerExit, exitBy,
                   requests, thenExit, closed, lastTrigger, probes, immediates>>

\* A call of the exported updateHealthCheck(checkName, status, details).
UpdateCheck(checkName, status, details) ==
    /\ WorkerRunning
    /\ checks' = updateHealthCheck(checks, checkName, status, details, now)
    /\ UNCHANGED <<now, pvars, hvars, serverState, healthState, server, accepted, ended,
                   destroyed, env, phase, shutdownAt, drainTimer, forceShutdownTimer,
                   destroyTimer, toDestroy, checkConnections, workerExit, exitBy,
                   requests, thenExit, closed, lastTrigger, probes, immediates>>

\* updateHealthCheck applied to any health state: the three checks with any
\* status, the two flags with any value.
InitUpdateCheck ==
    /\ now = 0
    /\ PrimaryIdle
    /\ BeatIdle
    /\ serverState = [isShuttingDown |-> FALSE, connections |-> {}]
    /\ healthState \in [isReady : BOOLEAN, isHealthy : BOOLEAN]
    /\ server = "listening"
    /\ accepted = 0
    /\ ended = {}
    /\ destroyed = {}
    /\ env = [drain |-> 0, timeout |-> 0]
    /\ phase = "RUNNING"
    /\ shutdownAt = NoTimer
    /\ drainTimer = NoTimer
    /\ forceShutdownTimer = NoTimer
    /\ destroyTimer = NoTimer
    /\ toDestroy = {}
    /\ checkConnections = NoTimer
    /\ workerExit = Running
    /\ exitBy = "none"
    /\ requests = 0
    /\ thenExit = FALSE
    /\ closed = {}
    /\ lastTrigger = "none"
    /\ checks \in [CheckNames -> [status : Statuses, lastCheck : {NoTimer}]]
    /\ probes = << >>
    /\ immediates = << >>

NextUpdateCheck ==
    \E checkName \in CallNames, status \in Statuses, details \in Details :
        UpdateCheck(checkName, status, details)

SpecUpdateCheck == InitUpdateCheck /\ [][NextUpdateCheck]_vars

---------------------------------------------------------------------------
(* Properties of the primary *)

RECURSIVE SumOver(_, _)
SumOver(S, f) ==
    IF S = {} THEN 0
    ELSE LET x == CHOOSE y \in S : TRUE IN f[x] + SumOver(S \ {x}, f)

\* Respawns recorded in the trailing window for the workers standing in
\* for startup worker s.
RecentRespawns(s) ==
    LET line == {id \in DOMAIN clusterState.workerRestarts : slotOf[id] = s}
    IN  SumOver(line, [id \in line |-> Len(RecentRestarts(clusterState, id, now))])

TotalRecentRespawns ==
    SumOver(1..numWorkers, [s \in 1..numWorkers |-> RecentRespawns(s)])

\* C1: crash exits of one worker within the restart window produce at most
\* maxRestartsPerMinute (5) respawns: 6 crash exits within 10 s give 5
\* respawns, the 6th none.
C1_RestartRateLimit ==
    \A s \in 1..numWorkers : RecentRespawns(s) <= maxRestartsPerMinute

\* C2: under a crash storm the forks of any restart window stay bounded by
\* maxRestartsPerMinute respawns per startup worker.
C2_StormBounded ==
    TotalRecentRespawns <= numWorkers * maxRestartsPerMinute

\* C3: once isShuttingDown is true, a step forks no worker and records
\* nothing in the restart history, whatever worker exits.
C3_NoRespawnInShutdown ==
    [][clusterState.isShuttingDown =>
          /\ ids' = ids
          /\ DOMAIN workers' \subseteq DOMAIN workers
          /\ clusterState'.workerRestarts = clusterState.workerRestarts]_vars

\* C3 witness: shutting down, and a worker has exited on the shutdown message.
C3_Witness ==
    /\ clusterState.isShuttingDown
    /\ crashes = 0
    /\ Cardinality(Live) < numWorkers

DisconnectRequested(ws, id) == id \in DOMAIN ws /\ ws[id].exitedAfterDisconnect

\* C4: an old worker's disconnect is requested only in the step in which the
\* new worker forked for it reports listening, and a rotation moves to its
\* next position only when the old worker of the current one has exited.
C4_RollingOrder ==
    [][/\ \A id \in Live :
            (DisconnectRequested(workers', id) /\ ~DisconnectRequested(workers, id)) =>
                \E k \in DOMAIN rotations :
                    /\ rotations[k].phase = "listening"
                    /\ OldWorker(rotations[k]) = id
                    /\ rotations[k].newWorker \in Live
                    /\ workers[rotations[k].newWorker].state = "online"
                    /\ workers'[rotations[k].newWorker].state = "listening"
       /\ \A k \in DOMAIN rotations :
            rotations'[k].index > rotations[k].index =>
                /\ rotations[k].phase = "timer"
                /\ OldWorker(rotations[k]) \notin Live]_vars

\* C4 witness: without any crash, a rotation waits for the exit of its second
\* old worker.
C4_Witness ==
    /\ crashes = 0
    /\ \E k \in DOMAIN rotations :
          /\ rotations[k].index = 2
          /\ rotations[k].phase = "exit"
          /\ DisconnectRequested(workers, OldWorker(rotations[k]))

\* A rolling restart of K serving workers is under way and nothing crashed.
Rotating(k) ==
    /\ rotations[k].phase # "complete"
    /\ rotations[k].allReadyAtStart
    /\ crashes = 0
    /\ ~clusterState.isShuttingDown

\* C5: during a rolling restart of K workers, without crashes or shutdown, at
\* least K - 1 workers are serving at every instant.
C5_RollingCapacity ==
    \A k \in DOMAIN rotations :
        Rotating(k) => Cardinality(ReadyWorkers) >= Len(rotations[k].workerIds) - 1

\* C5 witness: a rotation of two serving workers has requested the disconnect
\* of its second old worker.
C5_Witness ==
    \E k \in DOMAIN rotations :
        /\ Rotating(k)
        /\ Len(rotations[k].workerIds) = 2
        /\ rotations[k].index = 2
        /\ rotations[k].phase = "exit"

\* C6: during a rolling restart at most one forked worker has not yet
\* reported listening, whichever path forked it.
C6_OneNotReady ==
    \A k \in DOMAIN rotations : Rotating(k) => Cardinality(NotListening) <= 1

\* C13: a SIGUSR2 that arrives while a rolling restart is in progress forks
\* no worker and requests no disconnect.
C13_DuplicateRollingNoop ==
    [][(/\ Len(rotations') > Len(rotations)
        /\ \E k \in DOMAIN rotations : rotations[k].phase # "complete") =>
            /\ workers' = workers
            /\ ids' = ids]_vars

\* C15: a worker that exits while the primary is not shutting down and its
\* recent restarts are below the limit is answered in the same step by a
\* recorded restart and a freshly forked worker; and every replacement goes
\* on to serve unless it exits first.
C15_CrashRecovery ==
    /\ [][\A id \in Live :
            (/\ id \notin DOMAIN workers'
             /\ ~clusterState.isShuttingDown
             /\ Len(RecentRestarts(clusterState, id, now)) < maxRestartsPerMinute) =>
                /\ ids' = ids + 1
                /\ (ids + 1) \in DOMAIN workers'
                /\ workers'[ids + 1].state = "online"
                /\ Restarts(clusterState', id) =
                      Append(RecentRestarts(clusterState, id, now), now)]_vars
    /\ \A id \in 1..MaxForks :
          (id \in Live /\ id > numWorkers) ~> (id \notin Live \/ Ready(id))

\* C15 witness: after a crash, the replacement is serving.
C15_Witness ==
    /\ crashes > 0
    /\ \E id \in Live : id > numWorkers /\ Ready(id)

\* C9: the TERMINATE trigger sets isShuttingDown and sends the shutdown
\* message to every live worker exactly once: a live worker holds one
\* message when shutting down and none before.
C9_ShutdownSentOnce ==
    \A id \in Live : workers[id].inbox = IF clusterState.isShuttingDown THEN 1 ELSE 0

\* C9 witness: shutting down with two live workers, each holding its message.
C9_Witness ==
    /\ clusterState.isShuttingDown
    /\ Cardinality(Live) = 2
    /\ \A id \in Live : workers[id].inbox = 1

\* C10 as claimed: exit code 0 with no live worker left, exit code 1 only
\* with workers still alive.
C10_ExitCodeByLiveWorkers ==
    /\ primaryExit = 0 => Live = {}
    /\ primaryExit = 1 => Live # {}

\* C10 amended: exit code 0 when a poll finds no live worker before the
\* force-exit timer fires; exit code 1 when the timer fires first, that is
\* at its deadline and with no poll having found the worker count at zero.
C10_ExitCodeByPoll ==
    /\ primaryExit # Running => clusterState.isShuttingDown
    /\ primaryExit = 0 => Live = {} /\ checkInterval = NoTimer /\ now <= forceExit
    /\ primaryExit = 1 => now = forceExit /\ checkInterval >= now

\* C10 witness: the primary exited 0 at a poll later than the first one.
C10_Witness ==
    /\ primaryExit = 0
    /\ now >= forceExit - shutdownTimeout + 2 * CheckIntervalMs

\* C11: the first TERMINATE signal starts the shutdown sequence (one message
\* to every live worker, the poller, the timeout); a signal that arrives
\* while shutting down changes nothing, and while shutting down no worker is
\* sent another message, the timeout is never set again and the poller only
\* moves when it fires.
C11_TerminateIdempotent ==
    [][/\ (~clusterState.isShuttingDown /\ signals' # signals) =>
            /\ clusterState'.isShuttingDown
            /\ \A id \in Live : workers'[id].inbox = workers[id].inbox + 1
            /\ checkInterval' = now + CheckIntervalMs
            /\ forceExit' = now + shutdownTimeout
       /\ (clusterState.isShuttingDown /\ signals' # signals) =>
            UNCHANGED <<numWorkers, clusterState, workers, ids, slotOf, rotations,
                        shutdownTimeout, checkInterval, forceExit, primaryExit, crashes>>
       /\ clusterState.isShuttingDown =>
            /\ forceExit' = forceExit
            /\ checkInterval' # checkInterval => checkInterval = now
            /\ \A id \in Live \cap DOMAIN workers' :
                  workers'[id].inbox = workers[id].inbox]_vars

\* C11 witness: a second signal has arrived while workers were still draining.
C11_Witness ==
    /\ signals = 2
    /\ clusterState.isShuttingDown
    /\ Live # {}
    /\ forceExit # NoTimer

---------------------------------------------------------------------------
(* Properties of the heartbeat watchdog *)

\* The 30 s check of worker id fires in this step.
TickFires(id) ==
    /\ id \in DOMAIN heartbeatInterval
    /\ heartbeatInterval[id] = now
    /\ id \in DOMAIN heartbeatInterval'
    /\ heartbeatInterval'[id] # heartbeatInterval[id]

\* The primary receives a heartbeat of worker id in this step.
HeartbeatReceived(id) == id \in inFlight /\ id \notin inFlight' /\ id \in DOMAIN workers'

\* C16: lastHeartbeat of a worker changes only when that worker's heartbeat
\* is received, and then to the current instant; the worker is killed at a
\* check that finds the last heartbeat more than 6 x 10000 ms old, and
\* never otherwise.
C16_HeartbeatWatchdog ==
    [][\A id \in Live :
         /\ (id \in DOMAIN lastHeartbeat' /\ lastHeartbeat'[id] # lastHeartbeat[id]) =>
                HeartbeatReceived(id)
         /\ HeartbeatReceived(id) => lastHeartbeat'[id] = now
         /\ (TickFires(id) /\ now - lastHeartbeat[id] > 6 * HeartbeatIntervalMs) =>
                id \in DOMAIN killed'
         /\ (id \in DOMAIN killed' /\ id \notin DOMAIN killed) =>
                TickFires(id) /\ now - lastHeartbeat[id] > 6 * HeartbeatIntervalMs]_vars

\* C16 witness: a worker whose heartbeat had been received before is killed
\* at this instant, its last heartbeat being more than 60000 ms old.
C16_Witness ==
    \E id \in DOMAIN killed :
        /\ killed[id] = now
        /\ lastHeartbeat[id] > 0
        /\ now - lastHeartbeat[id] > HeartbeatTimeoutMs

\* C17: a worker the watchdog has killed exits: it is not stuck where
\* neither a timer nor the SIGTERM handler of that worker will ever run.
C17_KilledWorkerExits ==
    \A id \in DOMAIN killed : id \notin hung

\* C18: the watchdog's wait is bounded: no live worker stays without a
\* heartbeat for longer than the watchdog timeout, one check period and the
\* worker's shutdown budget (drain delay and force-shutdown timeout).
C18_WatchdogWaitBounded ==
    \A id \in Live :
        now - lastHeartbeat[id] <= HeartbeatTimeoutMs + WatchdogIntervalMs
                                     + DefaultDrainDelayMs + DefaultForceShutdownMs

---------------------------------------------------------------------------
(* Properties of the startup *)

\* C14: after startup exactly numWorkers worker records are live, with the
\* ids 1..numWorkers, and a worker whose listen has finished is ready.
C14_StartupWorkers ==
    /\ Cardinality(Live) = numWorkers
    /\ Live = 1..numWorkers
    /\ server = "listening" => healthState.isReady

\* C14 witness: two workers were configured, both report listening, and the
\* worker seen from inside has finished its listen.
C14_Witness ==
    /\ numWorkers = 2
    /\ \A id \in Live : workers[id].state = "listening"
    /\ server = "listening"
    /\ healthState.isReady

---------------------------------------------------------------------------
(* Properties of the worker *)

\* C12: isShuttingDown never reverts to false, and a shutdown request that
\* arrives while the worker is shutting down changes nothing: no timer, not
\* the server, not the phase, not the exit.
C12_ShutdownOnce ==
    [][/\ serverState.isShuttingDown => serverState'.isShuttingDown
       /\ (serverState.isShuttingDown /\ requests' # requests) =>
            UNCHANGED <<serverState, healthState, server, accepted, ended, destroyed,
                        env, phase, shutdownAt, drainTimer, forceShutdownTimer,
                        destroyTimer, toDestroy, checkConnections, workerExit, exitBy,
                        thenExit>>]_vars

\* C12 witness: a second request has arrived and the worker went on to CLOSING.
C12_Witness ==
    /\ requests = 2
    /\ phase = "CLOSING"
    /\ forceShutdownTimer # NoTimer

\* C7: the step of the shutdown trigger leaves isReady false and closes
\* nothing; the server stops accepting, or a tracked connection is
\* half-closed or destroyed, only in a later step, at least the drain delay
\* after the trigger.
C7_NotReadyBeforeClosing ==
    [][/\ (~serverState.isShuttingDown /\ serverState'.isShuttingDown) =>
            /\ ~healthState'.isReady
            /\ phase' = "DRAINING"
            /\ server' = server
            /\ ended' = {}
            /\ destroyed' = {}
       /\ (\/ server # "closed" /\ server' = "closed"
           \/ ~(ended' \subseteq ended)
           \/ ~(destroyed' \subseteq destroyed)) =>
            /\ serverState.isShuttingDown
            /\ shutdownAt # NoTimer
            /\ now >= shutdownAt + DrainDelay(env)]_vars

\* C7 witness: after a trigger that found the worker ready, the server is
\* closed and a tracked connection is half-closed.
C7_Witness ==
    /\ server = "closed"
    /\ ended # {}
    /\ ~healthState.isReady

C19_ExitWithinDrainPlusTimeout ==
    shutdownAt # NoTimer =>
        /\ now <= shutdownAt + DrainDelay(env) + ForceShutdownTimeout(env)
        /\ (WorkerRunning /\ phase = "DRAINING") =>
              drainTimer = shutdownAt + DrainDelay(env)
        /\ (WorkerRunning /\ phase = "CLOSING") =>
              forceShutdownTimer = shutdownAt + DrainDelay(env) + ForceShutdownTimeout(env)
        /\ WorkerRunning => phase \in {"DRAINING", "CLOSING"}

\* C19 witness: the worker exits at the bound itself, with a connection
\* still tracked when the force-shutdown timer fires.
C19_Witness ==
    /\ exitBy = "forced"
    /\ serverState.connections # {}
    /\ now = shutdownAt + DrainDelay(env) + ForceShutdownTimeout(env)

\* The scenario of C20: DRAIN_DELAY_MS=200, SHUTDOWN_TIMEOUT_MS=1000, the
\* shutdown started by a signal or the shutdown message.
Scenario20 ==
    /\ env = [drain |-> 200, timeout |-> 1000]
    /\ shutdownAt # NoTimer
    /\ ~thenExit
    /\ exitBy # "uncaughtException"

\* C20 as claimed, t counted from the trigger: DRAINING from t=0, CLOSING
\* from t=200, and the forced exit with a non-zero code at t=1000.
C20_ForcedAtTimeout ==
    Scenario20 =>
        /\ phase = "DRAINING" =>
              /\ drainTimer = shutdownAt + 200
              /\ now <= shutdownAt + 200
        /\ phase = "CLOSING" =>
              /\ now >= shutdownAt + 200
              /\ forceShutdownTimer = shutdownAt + 1000
        /\ exitBy = "forced" =>
              /\ now = shutdownAt + 1000
              /\ workerExit # 0

\* C20 amended: DRAINING from t=0, CLOSING from t=200, and a worker whose
\* connection is still tracked runs until the forced exit with a non-zero
\* code at t=1200, the drain delay plus the shutdown timeout.
C20_ForcedAtDrainPlusTimeout ==
    Scenario20 =>
        /\ phase = "DRAINING" =>
              /\ drainTimer = shutdownAt + 200
              /\ now <= shutdownAt + 200
        /\ phase = "CLOSING" =>
              /\ now >= shutdownAt + 200
              /\ forceShutdownTimer = shutdownAt + 1200
        /\ exitBy = "forced" =>
              /\ now = shutdownAt + 1200
              /\ workerExit # 0
        /\ (phase = "TERMINATED" /\ serverState.connections # {}) =>
              exitBy = "forced"

\* C20 witness: the scenario's worker, forced out at t=1200 with its one
\* connection, half-closed at t=200, still tracked.
C20_Witness ==
    /\ Scenario20
    /\ exitBy = "forced"
    /\ workerExit = 1
    /\ accepted = 1
    /\ ended = {1}
    /\ serverState.connections = {1}
    /\ now = shutdownAt + 1200

\* C21: the tracked set is the set of connections accepted and not yet
\* closed, whatever the position of the shutdown sequence.
C21_TrackedSet ==
    /\ closed \subseteq 1..accepted
    /\ serverState.connections = (1..accepted) \ closed

\* C21 witness: of two accepted connections, both tracked when the drain
\* delay ended, one closed during CLOSING and the other is still tracked.
C21_Witness ==
    /\ phase = "CLOSING"
    /\ toDestroy = {1, 2}
    /\ closed = {1}
    /\ serverState.connections = {2}

\* C22: a shutdown request changes the worker in the same way whether it
\* arrives as a signal or as the primary's shutdown message: from a worker
\* not yet shutting down, DRAINING with isReady false and the drain timer
\* set; from one already shutting down, nothing; and nothing else of the
\* worker changes in that step, so that what follows is the same.
C22_MessageAsSignal ==
    [][requests' # requests =>
         /\ lastTrigger' \in {"signal", "message"}
         /\ IF serverState.isShuttingDown
            THEN UNCHANGED <<serverState, healthState, phase, shutdownAt, drainTimer>>
            ELSE /\ serverState' = [serverState EXCEPT !.isShuttingDown = TRUE]
                 /\ healthState' = [healthState EXCEPT !.isReady = FALSE]
                 /\ phase' = "DRAINING"
                 /\ shutdownAt' = now
                 /\ drainTimer' = now + DrainDelay(env)
         /\ UNCHANGED <<server, accepted, ended, destroyed, env, forceShutdownTimer,
                        destroyTimer, toDestroy, checkConnections, workerExit, exitBy,
                        thenExit, closed>>]_vars

\* C22 witness: a drain started by the shutdown message alone has run its
\* whole course to the forced exit.
C22_Witness ==
    /\ lastTrigger = "message"
    /\ requests = 1
    /\ exitBy = "forced"
    /\ workerExit = 1

---------------------------------------------------------------------------
(* Properties of the health probes *)

\* C23: GET /health/ready answers 200 exactly when isReady, as the handler
\* reads it on arrival, and isHealthy, as the health checks of that probe
\* compute it, both hold; it answers 503 in every other case, at once when
\* isReady is false.
C23_ReadyProbe ==
    [][\A p \in DOMAIN probes' :
        LET q == probes'[p]
        IN  q.route = "ready" =>
              /\ p \notin DOMAIN probes =>
                    /\ q.sawReady = healthState.isReady
                    /\ ~q.sawReady => q.stage = "done"
              /\ (q.stage = "done" /\ p \in DOMAIN probes /\ q # probes[p]) =>
                    healthState'.isHealthy = AllHealthy(q.local)
              /\ q.stage = "done" =>
                    q.code = IF /\ q.sawReady
                                /\ DOMAIN q.local = CheckNames
                                /\ \A n \in CheckNames : q.local[n].status = "healthy"
                             THEN 200 ELSE 503]_vars

\* C23 witness: three readiness probes were answered: 200, 503 for a check
\* that was not healthy, and 503 for isReady false.
C23_Witness ==
    \E p, q, r \in DOMAIN probes :
        /\ probes[p].route = "ready" /\ probes[p].code = 200
        /\ probes[q].route = "ready" /\ probes[q].code = 503 /\ probes[q].sawReady
        /\ probes[r].route = "ready" /\ probes[r].code = 503 /\ ~probes[r].sawReady

\* C25: at the end of every cycle of runHealthChecks, isHealthy is the
\* conjunction, over the checks stored in healthState.checks, of
\* status = healthy.
C25_HealthyIsAndOfStored ==
    [][Len(immediates') < Len(immediates) =>
          healthState'.isHealthy =
              (\A n \in DOMAIN checks' : checks'[n].status = "healthy")]_vars

\* C27: a call of updateHealthCheck writes the entry of one name, with a
\* status and the instant of the call, adds no other name and changes no
\* other entry; isHealthy and isReady are what they were.
C27_UpdateCheckFrame ==
    [][\E name \in CallNames :
          /\ DOMAIN checks' = DOMAIN checks \cup {name}
          /\ checks'[name].status \in Statuses
          /\ checks'[name].lastCheck = now
          /\ \A n \in DOMAIN checks \ {name} : checks'[n] = checks[n]
          /\ healthState' = healthState]_vars

\* C27 witness: a check was added under a new name as unhealthy, and memory
\* was set unhealthy, while isHealthy and isReady are true.
C27_Witness ==
    /\ "custom" \in DOMAIN checks
    /\ checks["custom"] = [status |-> "unhealthy", lastCheck |-> now]
    /\ checks["memory"] = [status |-> "unhealthy", lastCheck |-> now]
    /\ healthState = [isReady |-> TRUE, isHealthy |-> TRUE]

\* C24: isReady is true only once the server listens, and false in every
\* state in which the shutdown has begun, however the shutdown request and
\* the listen callback interleave.
C24_ReadyOnlyInService ==
    /\ healthState.isReady => server # "starting"
    /\ serverState.isShuttingDown => ~healthState.isReady

\* C26: the step of an EADDRINUSE listen error ends the worker with exit
\* code 1, its server not listening and isReady false; nothing of the
\* worker changes afterwards: no second listen, no markReady.
C26_PortInUseFatal ==
    [][/\ exitBy' = "EADDRINUSE" =>
            /\ workerExit' = 1
            /\ phase' = "TERMINATED"
            /\ server' = "starting"
            /\ ~healthState'.isReady
       /\ exitBy = "EADDRINUSE" => UNCHANGED wvars]_vars

\* C26 witness: the worker has exited on the listen error.
C26_Witness ==
    /\ exitBy = "EADDRINUSE"
    /\ workerExit = 1
    /\ server = "starting"

---------------------------------------------------------------------------
(* Properties of the restart governor *)

\* The crash exit of worker id is handled in this step.
CrashExit(id) == id \in Live /\ id \notin DOMAIN workers'

\* C28: on a crash exit of worker id at instant now, the cluster not
\* shutting down, with R the stored history of id restricted to the
\* instants younger than the window (no stored instant lying on the edge
\* itself): a replacement is forked iff R has fewer than
\* maxRestartsPerMinute instants, and then the stored history of id becomes R
\* followed by now; otherwise nothing is forked and nothing is stored.
C28_GovernorDecision ==
    [][\A id \in Live :
        LET h == Restarts(clusterState, id)
            R == SelectSeq(h, LAMBDA time : now - time < RestartWindowMs)
        IN  (/\ CrashExit(id)
             /\ ~clusterState.isShuttingDown
             /\ \A k \in DOMAIN h : now - h[k] # RestartWindowMs) =>
                /\ ids' = ids + 1 <=> Len(R) < maxRestartsPerMinute
                /\ ids' = ids + 1 =>
                      /\ DOMAIN workers' = (Live \ {id}) \cup {ids + 1}
                      /\ Restarts(clusterState', id) = R \o <<now>>
                /\ ids' # ids + 1 =>
                      /\ ids' = ids
                      /\ DOMAIN workers' = Live \ {id}
                      /\ clusterState' = clusterState]_vars

\* C28 witness: of two workers that exited at 60000, worker 1, with five
\* restarts in the window, was not replaced and its history is as it was;
\* worker 2 was replaced and has the instant of its exit stored.
C28_Witness ==
    /\ now = RestartWindowMs
    /\ numWorkers = 2
    /\ crashes = 2
    /\ Live = {3}
    /\ Restarts(clusterState, 1) = <<10000, 20000, 30000, 40000, 50000>>
    /\ Restarts(clusterState, 2) = <<now>>

\* C29: the stored history follows the worker across respawns: whatever was
\* recorded at the crash exits of the workers a live worker stands in for is
\* in the history its own crash exit will consult.
C29_HistoryFollowsReplacement ==
    \A id \in Live : \A prev \in DOMAIN clusterState.workerRestarts :
        (prev # id /\ slotOf[prev] = slotOf[id]) =>
            \A k \in DOMAIN Restarts(clusterState, prev) :
                \E j \in DOMAIN Restarts(clusterState, id) :
                    Restarts(clusterState, id)[j] = Restarts(clusterState, prev)[k]

---------------------------------------------------------------------------
(* Properties of the rolling restart under crashes and shutdown *)

\* C31: with no crash and no shutdown, once a rolling restart has completed
\* and every live worker listens with no disconnect pending, the live
\* workers are as many as when it started, and the planned exits have left
\* nothing in the restart history.
C31_RollingKeepsCount ==
    (/\ Len(rotations) = 1
     /\ rotations[1].phase = "complete"
     /\ crashes = 0
     /\ ~clusterState.isShuttingDown
     /\ \A id \in Live : workers[id].state = "listening"
                         /\ ~workers[id].exitedAfterDisconnect) =>
        /\ Cardinality(Live) = Len(rotations[1].workerIds)
        /\ clusterState.workerRestarts = << >>

\* The primary when SIGUSR2 and SIGTERM meet: a rolling restart may be
\* running when the shutdown begins, or be requested after it.
NextRollShutdown ==
    \/ \E id \in Live : ExitAfterDisconnect(id)
    \/ \E id \in Live : ExitAfterShutdown(id)
    \/ \E id \in Live : WorkerListening(id)
    \/ Len(rotations) < MaxRotations /\ RollingRestart
    \/ \E k \in DOMAIN rotations : RestartNextTimer(k)
    \/ signals < MaxSignals /\ Terminate
    \/ CheckWorkers
    \/ ForceExit
    \/ Advance(0)

SpecRollShutdown == Init /\ [][NextRollShutdown]_vars

\* C32: once the primary is shutting down no step forks a worker: no fresh
\* worker id is handed out and the number of live workers does not grow.
C32_NoForkWhileShuttingDown ==
    [][clusterState.isShuttingDown =>
          /\ ids' = ids
          /\ Cardinality(DOMAIN workers') <= Cardinality(DOMAIN workers)]_vars

\* C33: a rolling restart, once triggered, eventually completes, also when
\* workers crash in the middle of it.  In finite-run form: a rotation that
\* has not completed always waits for something that can still happen, the
\* 'listening' event of a live new worker, the 'exit' event of a live old
\* worker, or its own timer; otherwise it waits forever.
C33_RotationCanProceed ==
    \A k \in DOMAIN rotations :
        /\ rotations[k].phase = "listening" => rotations[k].newWorker \in Live
        /\ rotations[k].phase = "exit" => OldWorker(rotations[k]) \in Live
        /\ rotations[k].phase = "timer" => rotations[k].timerAt >= now

\* C34: every live worker is covered by a heartbeat watchdog, whichever path
\* forked it (startup loop, crash respawn, rolling restart).
C34_EveryWorkerWatched == \A id \in Live : workers[id].watchdog

---------------------------------------------------------------------------
(* The primary together with the process of its worker, CLUSTER_WORKERS=1 *)

\* DRAIN_DELAY_MS and SHUTDOWN_TIMEOUT_MS as the primary and its worker both
\* read them from the one environment: unset (0), or set; the timeout is
\* shorter than the default drain delay, or shorter or longer than the
\* 5000 ms after which connections are destroyed
EnvCluster == {[drain |-> 0, timeout |-> 1250], [drain |-> 200, timeout |-> 1250],
               [drain |-> 200, timeout |-> 6000]}

\* server.js as a forked worker loads it, with the environment e.
WorkerBoot(e) ==
    /\ serverState' = [isShuttingDown |-> FALSE, connections |-> {}]
    /\ healthState' = [isReady |-> FALSE, isHealthy |-> TRUE]
    /\ server' = "starting"
    /\ accepted' = 0
    /\ ended' = {}
    /\ destroyed' = {}
    /\ env' = e
    /\ phase' = "RUNNING"
    /\ shutdownAt' = NoTimer
    /\ drainTimer' = NoTimer
    /\ forceShutdownTimer' = NoTimer
    /\ destroyTimer' = NoTimer
    /\ toDestroy' = {}
    /\ checkConnections' = NoTimer
    /\ workerExit' = Running
    /\ exitBy' = "none"
    /\ requests' = 0
    /\ thenExit' = FALSE
    /\ closed' = {}
    /\ lastTrigger' = "none"
    /\ checks' = ChecksInit
    /\ probes' = << >>
    /\ immediates' = << >>

\* One worker has been forked and loads server.js; the primary and the
\* worker parse the same SHUTDOWN_TIMEOUT_MS.
InitCluster ==
    /\ now = 0
    /\ numWorkers = 1
    /\ clusterState = [isShuttingDown |-> FALSE, workerRestarts |-> << >>]
    /\ workers = StartupWorkers(1)
    /\ ids = 1
    /\ slotOf = [i \in 1..1 |-> i]
    /\ rotations = << >>
    /\ checkInterval = NoTimer
    /\ forceExit = NoTimer
    /\ primaryExit = Running
    /\ crashes = 0
    /\ signals = 0
    /\ \E e \in EnvCluster : env = e /\ shutdownTimeout = ParseTimeout(e.timeout)
    /\ serverState = [isShuttingDown |-> FALSE, connections |-> {}]
    /\ healthState = [isReady |-> FALSE, isHealthy |-> TRUE]
    /\ server = "starting"
    /\ accepted = 0
    /\ ended = {}
    /\ destroyed = {}
    /\ phase = "RUNNING"
    /\ shutdownAt = NoTimer
    /\ drainTimer = NoTimer
    /\ forceShutdownTimer = NoTimer
    /\ destroyTimer = NoTimer
    /\ toDestroy = {}
    /\ checkConnections = NoTimer
    /\ workerExit = Running
    /\ exitBy = "none"
    /\ requests = 0
    /\ thenExit = FALSE
    /\ closed = {}
    /\ lastTrigger = "none"
    /\ checks = ChecksInit
    /\ probes = << >>
    /\ immediates = << >>
    /\ BeatIdle

\* The shutdown message of the primary has not reached the worker yet.
ShutdownInFlight ==
    /\ WorkerRunning
    /\ lastTrigger # "message"
    /\ \E id \in Live : workers[id].inbox > 0

\* process.on('message') of the worker receives what the primary sent.
DeliverShutdown ==
    /\ ShutdownInFlight
    /\ ShutdownMessage([type |-> "shutdown"])

\* The worker process has ended: cluster.on('exit') in the primary; a
\* respawned worker loads server.js anew.  crashes counts the exits.
ClusterExit ==
    /\ PrimaryRunning
    /\ ~WorkerRunning
    /\ \E id \in Live :
          /\ OnExit(id)
          /\ IF ShouldRespawn(clusterState, id, now)
             THEN WorkerBoot(env)
             ELSE UNCHANGED wvars
    /\ crashes' = crashes + 1
    /\ UNCHANGED <<now, hvars, numWorkers, shutdownTimeout, checkInterval, forceExit,
                   primaryExit, signals>>

ClusterDeadlines == Deadlines \cup (IF WorkerRunning THEN WorkerDeadlines ELSE {})

\* Time passes, up to the next timer of either process; a message on its
\* way, the 'close' of a destroyed connection and the exit of the worker
\* are delivered before the clock moves.
ClusterAdvance ==
    /\ PrimaryRunning
    /\ WorkerRunning \/ Live = {}
    /\ ~ShutdownInFlight
    /\ destroyed = {}
    /\ \A d \in ClusterDeadlines : d > now
    /\ ClusterDeadlines = {} => now + StepMs <= MaxSteps * StepMs
    /\ now' = IF ClusterDeadlines = {} THEN now + StepMs
              ELSE Min(now + StepMs, SetMin(ClusterDeadlines))
    /\ UNCHANGED <<pvars, wvars, hvars>>

\* The primary and its worker through startup, one uncaught exception, a
\* signal sent to the worker itself (Ctrl-C reaches the whole process group)
\* and the graceful shutdown of the cluster.
NextCluster ==
    \/ Listening
    \/ Accept
    \/ \E c \in serverState.connections : ConnectionClose(c)
    \/ crashes < MaxCrashes /\ UncaughtException
    \/ crashes < MaxCrashes /\ lastTrigger # "message" /\ requests < MaxRequests
          /\ ShutdownTrigger
    \/ signals < MaxSignals /\ Terminate
    \/ DeliverShutdown
    \/ DrainElapsed
    \/ DestroyTimers
    \/ CheckConnections
    \/ ForceShutdown
    \/ ClusterExit
    \/ CheckWorkers
    \/ ForceExit
    \/ ClusterAdvance

SpecCluster == InitCluster /\ [][NextCluster]_vars

---------------------------------------------------------------------------
(* Exit codes of the worker and of the primary *)

\* C35: a worker that has handled an uncaught exception exits with code 1
\* and never with 0.  When no shutdown was in progress it stays in its
\* drain delay and exits when the delay has elapsed, without waiting for its
\* connections; when a shutdown was in progress the handler exits at once.
C35_ExceptionExitsOne ==
    [][/\ (UncaughtException /\ serverState.isShuttingDown) =>
              workerExit' = 1 /\ exitBy' = "uncaughtException" /\ now' = now
       /\ (exitBy = "uncaughtException")' => (workerExit = 1)'
       /\ thenExit' =>
              /\ (workerExit # 0)'
              /\ (now <= shutdownAt + DrainDelay(env))'
              /\ WorkerRunning' => (phase = "DRAINING")']_vars

C35_Witness ==
    /\ thenExit
    /\ exitBy = "uncaughtException"
    /\ workerExit = 1
    /\ now = shutdownAt + DrainDelay(env)
    /\ serverState.connections # {}

---------------------------------------------------------------------------
(* Timing of the watchdog *)

\* C38: the watchdog calls worker.kill() only for a worker whose last
\* received heartbeat is more than 60000 ms old, so never for a worker whose
\* heartbeats arrive every 10000 ms; and a worker that has fallen silent is
\* killed no later than 90000 ms after its last received heartbeat.
C38_WatchdogTiming ==
    [][\A id \in Live :
         /\ (id \in DOMAIN killed' /\ id \notin DOMAIN killed) =>
                /\ now - lastHeartbeat[id] > HeartbeatTimeoutMs
                /\ now - lastHeartbeat[id] <= HeartbeatTimeoutMs + WatchdogIntervalMs
                /\ id \in Silent
         /\ (id \in DOMAIN heartbeatInterval' /\ id \notin DOMAIN killed') =>
                now' - lastHeartbeat'[id] <= HeartbeatTimeoutMs + WatchdogIntervalMs]_vars

\* C38 witness: a worker that never sent a heartbeat is killed at this
\* instant, 90000 ms after its fork, while another worker whose heartbeats
\* keep arriving is alive and not killed.
C38_Witness ==
    \E id \in DOMAIN killed :
        /\ killed[id] = now
        /\ now - lastHeartbeat[id] = HeartbeatTimeoutMs + WatchdogIntervalMs
        /\ \E other \in Live \ DOMAIN killed :
              now - lastHeartbeat[other] <= HeartbeatIntervalMs

---------------------------------------------------------------------------
(* The end of the drain *)

\* C39: in CLOSING every tracked connection has been half-closed, and a
\* drain started by a signal or a shutdown message whose force-shutdown
\* timeout is longer than the destroy delay and one poll never ends on the
\* timeout path.
C39_DrainEndsOnEmptySet ==
    /\ (phase = "CLOSING" /\ WorkerRunning) => serverState.connections \subseteq ended
    /\ (/\ lastTrigger \in {"signal", "message"}
        /\ ForceShutdownTimeout(env) > DestroyDelayMs + CheckConnectionsMs) =>
           exitBy # "forced"

---------------------------------------------------------------------------
(* Readiness probes during a shutdown *)

\* C40: a readiness probe answered while markNotReady() is in effect (the
\* shutdown has begun and isReady is false) is not answered 200, also when
\* the probe was already in flight when the shutdown began.
C40_NoReadyAfterMarkNotReady ==
    [][\A p \in DOMAIN probes' :
         (/\ probes'[p].route = "ready"
          /\ probes'[p].stage = "done"
          /\ p \in DOMAIN probes => probes[p].stage = "await"
          /\ serverState.isShuttingDown
          /\ ~healthState.isReady) =>
             probes'[p].code = 503]_vars

---------------------------------------------------------------------------
(* Exit code and timeout of the primary against those of its worker *)

\* C36: the primary exits with code 0 only if its worker has exited with
\* code 0, not through its force-shutdown timer or an error exit.
C36_CleanOnlyIfWorkersClean == primaryExit = 0 => workerExit = 0

\* C37: with the same shutdown timeout in both processes and a positive
\* drain delay, the primary's timeout does not fire while the worker is
\* within drain delay + shutdown timeout of receiving the shutdown message:
\* the primary exits with code 1 only when a live worker is past that budget.
C37_TimeoutOnlyPastBudget ==
    primaryExit = 1 =>
        /\ WorkerRunning
        /\ lastTrigger = "message"
        /\ now > shutdownAt + DrainDelay(env) + ForceShutdownTimeout(env)

====
